---------------------------- MODULE Spec2Model ----------------------------
(***************************************************************************)
(* Model of scripts/build.py (the module catalog builder: GitHubGraphQL,   *)
(* GithubApi, Main) and scripts/git-commit.py (the maintenance workflow:   *)
(* Git, Main).                                                             *)
(*                                                                         *)
(* A Python str is a sequence of one-character strings, so that split and  *)
(* splitlines are computed character by character.  A Python value that    *)
(* may be None is a tagged record: PyNone, Str(s), List(l), Dict(d).       *)
(* A call that may raise yields Return(v) or Raise(e).                     *)
(*                                                                         *)
(* Four specifications share the module:                                   *)
(*   SpecProp     GithubApi.get_module_prop over descriptor texts          *)
(*   SpecGraphQL  the three GitHubGraphQL getters over forge responses     *)
(*   Spec         Main.exec of build.py, one step per statement group      *)
(*   SpecGit      Main.exec of git-commit.py                               *)
(***************************************************************************)
EXTENDS Integers, Sequences, FiniteSets, TLC

VARIABLES
    \* ---- GithubApi.get_module_prop on its own (SpecProp)
    prop,          \* what repo.get_contents("module.prop") answers
    parsed,        \* what get_module_prop returned, Pending before the call
    \* ---- GitHubGraphQL getters on their own (SpecGraphQL)
    call,          \* which getter is called
    response,      \* what requests.post answers
    outcome,       \* the getter's outcome, Pending before the call
    \* ---- Main.exec of build.py (Spec)
    pc,            \* the statement Main.exec is at
    raised,        \* the uncaught exception that ended the run, "none" if none
    config,        \* GithubApi._config
    output,        \* the file at config_path: Unwritten, or the dumped catalog
    writes,        \* how many times write_to opened the file for writing
    repos,         \* user.get_repos(): the repositories, in enumeration order
    idx,           \* position in repos of the loop of generate_modules
    modules,       \* the local list `modules` of generate_modules
    module,        \* what generate_module returned for the current repository
    module_prop,   \* locals of generate_module ...
    provider,
    changelog,
    kind,
    issues,
    donate_urls,
    donate,
    homepage,
    forge,         \* what the forge answered about the current repository
    probed,        \* per repository handled so far: did it have a module.prop
    \* ---- Main.exec of git-commit.py (SpecGit)
    step,          \* the statement Main.exec of git-commit.py is at
    modules_dir,   \* the entries of modules/, in sorted order
    cursor,        \* position in modules_dir of the loop of Git.remove
    ran,           \* the steps started so far, each with how it ended
    manifest,      \* what json/modules.json held when commit opened it
    msg            \* the commit message, Unset until it is built

propVars == <<prop, parsed>>
gqlVars == <<call, response, outcome>>
locals == <<module_prop, provider, changelog, kind, issues, donate_urls,
            donate, homepage>>
buildVars == <<pc, raised, config, output, writes, repos, idx, modules, module,
               locals, forge, probed>>
gitVars == <<step, modules_dir, cursor, ran, manifest, msg>>
vars == <<propVars, gqlVars, buildVars, gitVars>>

-----------------------------------------------------------------------------
(* Bounds of the exploration.                                              *)

\* longest descriptor text explored by SpecProp
MaxLen == 6

\* most funding entries in one forge answer
MaxLinks == 2

\* most repositories the account enumerates
MaxRepos == 3

\* most entries of the modules directory
MaxDirs == 2

-----------------------------------------------------------------------------
(* Python values.                                                          *)

PyNone == [t |-> "None"]
Str(s) == [t |-> "str", s |-> s]
List(l) == [t |-> "list", l |-> l]
Dict(d) == [t |-> "dict", d |-> d]

Return(v) == [exc |-> "none", ret |-> v]
Raise(e) == [exc |-> e]

\* a call that has not been made yet
Pending == [exc |-> "pending"]

\* all sequences over S of length at most n
SeqsUpTo(S, n) == UNION {[1..k -> S] : k \in 0..n}

-----------------------------------------------------------------------------
(* GithubApi.get_module_prop                                               *)

LF == "\n"
CR == "\r"
EQ == "="

\* the line boundaries of str.splitlines that the explored texts contain
LineBreaks == {LF, CR}

\* str.splitlines(): a boundary ends the current line (CR LF is one boundary);
\* a text's last line is dropped only when it is empty.
RECURSIVE splitlines_from(_, _, _)
splitlines_from(s, i, cur) ==
    IF i > Len(s) THEN (IF cur = <<>> THEN <<>> ELSE <<cur>>)
    ELSE IF s[i] = CR /\ i < Len(s) /\ s[i + 1] = LF
         THEN <<cur>> \o splitlines_from(s, i + 2, <<>>)
    ELSE IF s[i] \in LineBreaks
         THEN <<cur>> \o splitlines_from(s, i + 1, <<>>)
    ELSE splitlines_from(s, i + 1, Append(cur, s[i]))

splitlines(s) == splitlines_from(s, 1, <<>>)

\* `"=" in line`
has_eq(line) == \E p \in 1..Len(line) : line[p] = EQ

\* a plausible slip: split at the last "=" (rsplit) instead of the first
split_point_last(line) ==
    CHOOSE p \in 1..Len(line) :
        line[p] = EQ /\ \A q \in (p + 1)..Len(line) : line[q] # EQ

\* where line.split("=", 1) cuts: the first "="
split_point(line) ==
    CHOOSE p \in 1..Len(line) :
        line[p] = EQ /\ \A q \in 1..(p - 1) : line[q] # EQ

\* key, value = line.split("=", 1)
split_eq(line) ==
    LET p == split_point(line)
    IN  [key |-> SubSeq(line, 1, p - 1), value |-> SubSeq(line, p + 1, Len(line))]

\* module_prop[key] = value
dict_set(d, key, value) ==
    [k \in (DOMAIN d) \cup {key} |-> IF k = key THEN value ELSE d[k]]

\* the for loop of get_module_prop over lines[i..]
RECURSIVE parse_lines(_, _, _)
parse_lines(lines, i, d) ==
    IF i > Len(lines) THEN d
    ELSE IF ~has_eq(lines[i]) THEN parse_lines(lines, i + 1, d)
    ELSE LET kv == split_eq(lines[i])
         IN  parse_lines(lines, i + 1, dict_set(d, kv.key, kv.value))

\* the empty dict
EmptyDict == [k \in {} |-> <<>>]

\* get_module_prop(repo): contents is what repo.get_contents("module.prop")
\* answers, [found |-> FALSE] standing for UnknownObjectException
get_module_prop(contents) ==
    IF ~contents.found THEN PyNone
    ELSE Dict(parse_lines(splitlines(contents.text), 1, EmptyDict))

NotFound == [found |-> FALSE]
File(text) == [found |-> TRUE, text |-> text]

-----------------------------------------------------------------------------
(* GitHubGraphQL                                                           *)

\* value.get(key): a dict answers the member or None, anything else has no
\* attribute `get`
py_get(value, key) ==
    IF value.t = "dict"
    THEN Return(IF key \in DOMAIN value.d THEN value.d[key] ELSE PyNone)
    ELSE Raise("AttributeError")

\* value[key] on a dict
py_item(value, key) ==
    IF key \in DOMAIN value.d THEN Return(value.d[key]) ELSE Raise("KeyError")

\* what requests.post answers: it raises (the network failed), or it returns
\* a response with a status and a JSON body
NetworkError == [kind |-> "error"]
HttpResponse(ok, json) == [kind |-> "http", ok |-> ok, json |-> json]

\* graphql_query(query): the body of an OK response, None for any other
\* response; an exception of requests.post is not caught
graphql_query(resp) ==
    IF resp.kind = "error" THEN Raise("ConnectionError")
    ELSE IF resp.ok THEN Return(resp.json)
    ELSE Return(PyNone)

\* query_repository(owner, name, query): result.get("data").get("repository"),
\* None when either .get raises AttributeError
query_repository(resp) ==
    LET result == graphql_query(resp)
    IN  IF result.exc # "none" THEN result
        ELSE LET data == py_get(result.ret, "data")
             IN  IF data.exc = "AttributeError" THEN Return(PyNone)
                 ELSE LET repository == py_get(data.ret, "repository")
                      IN  IF repository.exc = "AttributeError"
                          THEN Return(PyNone)
                          ELSE repository

SLASH == "/"

\* the literal "https://github.com/sponsors/", kept as one symbol
SponsorsPrefix == <<"https://github.com/sponsors/">>

\* item["url"].split("/")[-1]: what follows the last "/", the whole url
\* when it has none
last_segment(url) ==
    IF \A p \in 1..Len(url) : url[p] # SLASH THEN url
    ELSE LET cut == CHOOSE p \in 1..Len(url) :
                      url[p] = SLASH /\ \A q \in (p + 1)..Len(url) : url[q] # SLASH
         IN  SubSeq(url, cut + 1, Len(url))

\* the body of the for loop of get_sponsor_url: the link appended for item
sponsor_link(item) ==
    IF item.platform = "GITHUB"
    THEN SponsorsPrefix \o last_segment(item.url)
    ELSE item.url

\* get_sponsor_url(owner, name)
get_sponsor_url(resp) ==
    LET repository == query_repository(resp)
    IN  IF repository.exc # "none" THEN repository
        ELSE IF repository.ret = PyNone THEN Return(List(<<>>))
        ELSE LET funding_links == py_item(repository.ret, "fundingLinks")
             IN  IF funding_links.exc # "none" THEN funding_links
                 ELSE Return(List([i \in 1..Len(funding_links.ret.l) |->
                                      sponsor_link(funding_links.ret.l[i])]))

\* get_homepage_url(owner, name)
get_homepage_url(resp) ==
    LET repository == query_repository(resp)
    IN  IF repository.exc # "none" THEN repository
        ELSE IF repository.ret = PyNone THEN Return(PyNone)
        ELSE LET homepage_url == py_item(repository.ret, "homepageUrl")
             IN  IF homepage_url.exc # "none" THEN homepage_url
                 ELSE IF homepage_url.ret # Str(<<>>) THEN homepage_url
                 ELSE Return(PyNone)

\* the timestamps dateutil's parse accepts, among those explored
ValidTimestamps == {<<"2", "0", "2", "4">>}

\* dateutil.parser.parse(value): TypeError for None, ParserError (a
\* ValueError) for a string that is no date
parse(value) ==
    IF value.t # "str" THEN Raise("TypeError")
    ELSE IF value.s \in ValidTimestamps THEN Return([t |-> "datetime", s |-> value.s])
    ELSE Raise("ParserError")

\* get_pushed_at(owner, name): only TypeError is caught
get_pushed_at(resp) ==
    LET repository == query_repository(resp)
    IN  IF repository.exc # "none" THEN repository
        ELSE IF repository.ret = PyNone THEN Return(PyNone)
        ELSE LET pushed_at == py_item(repository.ret, "pushedAt")
             IN  IF pushed_at.exc # "none" THEN pushed_at
                 ELSE LET time == parse(pushed_at.ret)
                      IN  IF time.exc = "TypeError" THEN Return(PyNone) ELSE time

-----------------------------------------------------------------------------
(* The forge's answers to a GraphQL request.                               *)

Urls == {<<"h", SLASH, "o">>, <<"h", SLASH>>, <<"x">>}
Platforms == {"GITHUB", "OTHER"}
FundingEntries == [platform : Platforms, url : Urls]

\* a JSON body {"data": {"repository": repository}}
WithRepository(repository) ==
    HttpResponse(TRUE, Dict([data |-> Dict([repository |-> repository])]))

\* the answers that carry no repository object
NoRepository ==
    { HttpResponse(FALSE, PyNone),                         \* non-OK status
      HttpResponse(TRUE, Dict(EmptyDict)),                 \* no "data"
      HttpResponse(TRUE, Dict([data |-> PyNone])),         \* "data": null
      HttpResponse(TRUE, Dict([data |-> Dict(EmptyDict)])),\* no "repository"
      WithRepository(PyNone) }                             \* "repository": null

\* the answers whose repository object has the requested field
FundingAnswers(n) ==
    {WithRepository(Dict([fundingLinks |-> List(l)])) : l \in SeqsUpTo(FundingEntries, n)}
HomepageAnswers ==
    {WithRepository(Dict([homepageUrl |-> h])) : h \in {PyNone, Str(<<>>), Str(<<"w">>)}}
PushedAtAnswers ==
    {WithRepository(Dict([pushedAt |-> p])) :
        p \in {PyNone, Str(<<"2", "0", "2", "4">>), Str(<<"?">>), Str(<<>>)}}

\* the answers that make the client raise: the transport fails, or the
\* repository object lacks the requested field
Faulty == {NetworkError, WithRepository(Dict(EmptyDict))}

\* every answer explored for a getter
Getters == {"get_sponsor_url", "get_homepage_url", "get_pushed_at"}

AnswersTo(getter) ==
    Faulty \cup NoRepository \cup
        (CASE getter = "get_sponsor_url" -> FundingAnswers(MaxLinks)
           [] getter = "get_homepage_url" -> HomepageAnswers
           [] getter = "get_pushed_at" -> PushedAtAnswers)

-----------------------------------------------------------------------------
(* GithubApi                                                               *)

\* the keys of the descriptor that generate_module reads
IdKey == <<"i", "d">>
UpdateJsonKey == <<"u", "p", "d", "a", "t", "e", "J", "s", "o", "n">>

\* the REST fields of repository r, each literal kept as one symbol
ssh_url(r) == <<"git@github.com:o/", ToString(r), ".git">>
clone_url(r) == <<"https://github.com/o/", ToString(r), ".git">>
html_url(r) == <<"https://github.com/o/", ToString(r)>>
download_url(r) == <<"https://raw.githubusercontent.com/o/", ToString(r), "/changelog.md">>

\* get_license(repo): lic is what repo.get_license() answers
get_license(lic) ==
    IF ~lic.found THEN Str(<<>>)
    ELSE IF lic.spdx_id = <<"NOASSERTION">> THEN Str(<<>>)
    ELSE Str(lic.spdx_id)

\* get_changelog(repo): contents is what repo.get_contents("changelog.md")
\* answers
get_changelog(contents) ==
    IF ~contents.found THEN Str(<<>>) ELSE Str(contents.download_url)

\* a plausible slip: `if "updateJson" in module_prop`
has_update_json_key(d) == UpdateJsonKey \in DOMAIN d

\* `if module_prop.get("updateJson")`: the key is there and its value is not ""
has_update_json(d) == UpdateJsonKey \in DOMAIN d /\ d[UpdateJsonKey] # <<>>

\* a plausible slip: the last funding link, donate_urls[-1]
pick_donate_last(urls) == IF Len(urls) = 0 THEN Str(<<>>) ELSE Str(urls[Len(urls)])

\* `donate = "" if len(donate_urls) == 0 else donate_urls[0]`
pick_donate(urls) == IF Len(urls) = 0 THEN Str(<<>>) ELSE Str(urls[1])

\* a plausible slip: the homepage is stored as returned, None included
homepage_or_none(h) == h

\* `if homepage is None: homepage = ""`
homepage_or_empty(h) == IF h = PyNone THEN Str(<<>>) ELSE h

\* the dict that generate_module returns
module_record(mp, k, prov, cl, lic, home, src, don, sup) ==
    [id |-> Str(mp[IdKey]), kind |-> k, provider |-> prov, changelog |-> cl,
     metadata |-> [license |-> lic, homepage |-> home, source |-> src,
                   donate |-> don, support |-> sup]]

\* a plausible slip: a module whose id is already listed is not added
append_module_unique(list, m) ==
    IF m = PyNone \/ \E i \in 1..Len(list) : list[i].id = m.id THEN list
    ELSE Append(list, m)

\* `if module is not None: modules.append(module)`
append_module(list, m) == IF m = PyNone THEN list ELSE Append(list, m)

\* a local that is not assigned yet
Unset == [t |-> "unset"]
\* a question the forge has not been asked yet
Unasked == [asked |-> FALSE]
NoAnswers ==
    [prop |-> Unasked, changelog |-> Unasked, has_issues |-> Unasked,
     funding |-> Unasked, homepage |-> Unasked, license |-> Unasked]

\* the file at config_path before write_to
Unwritten == [t |-> "no file"]

\* GithubApi.__init__: self._config; {} is the empty dict
InitialConfig == [log |-> EmptyDict, repository |-> EmptyDict, modules |-> Dict(EmptyDict)]

-----------------------------------------------------------------------------
(* The forge's answers about a repository.  An account with at most one    *)
(* repository is explored with every answer below; an account with more,   *)
(* with the selection marked `few`, which keeps each outcome of the run.   *)

Line(key, value) == key \o <<EQ>> \o value

PropAnswers(few) ==
    { NotFound,                                                   \* no descriptor
      File(Line(IdKey, <<"a">>)),                                 \* id only
      File(Line(IdKey, <<"a">>) \o <<LF>> \o Line(UpdateJsonKey, <<"u">>)),
      File(Line(<<"n">>, <<"a">>)) }                              \* no id
    \cup (IF few THEN {} ELSE
    { File(Line(IdKey, <<"a">>) \o <<LF>> \o Line(UpdateJsonKey, <<>>)),
      File(Line(UpdateJsonKey, <<"u">>)),                         \* no id
      File(Line(IdKey, <<"b">>) \o <<LF>> \o <<"x">> \o <<LF>> \o Line(IdKey, <<"a", EQ>>)) })

ChangelogAnswers(r) == {NotFound, [found |-> TRUE, download_url |-> download_url(r)]}

LicenseAnswers(few) ==
    {NotFound, [found |-> TRUE, spdx_id |-> <<"MIT">>]}
    \cup (IF few THEN {} ELSE {[found |-> TRUE, spdx_id |-> <<"NOASSERTION">>]})

FundingFor(few) ==
    IF few
    THEN {NetworkError, WithRepository(PyNone),
          WithRepository(Dict([fundingLinks |->
              List(<<[platform |-> "GITHUB", url |-> <<"h", SLASH, "o">>]>>)]))}
    ELSE AnswersTo("get_sponsor_url")

HomepageFor(few) ==
    IF few
    THEN {WithRepository(PyNone)}
    ELSE AnswersTo("get_homepage_url")

IssuesFor(few) == IF few THEN {TRUE} ELSE BOOLEAN

Few == Len(repos) > 1

-----------------------------------------------------------------------------
(* Spec: Main.exec of build.py.  The state after GithubApi(args.token).    *)

\* the variables of the other specifications, at rest
PropIdle == prop = NotFound /\ parsed = Pending
GqlIdle == call = "none" /\ response = [kind |-> "none"] /\ outcome = Pending

GitIdle ==
    /\ step = "idle" /\ modules_dir = <<>> /\ cursor = 0 /\ ran = <<>>
    /\ manifest = Unasked /\ msg = Unset

BuildIdle ==
    /\ pc = "idle" /\ raised = "none" /\ config = InitialConfig
    /\ output = Unwritten /\ writes = 0 /\ repos = <<>> /\ idx = 0
    /\ modules = <<>> /\ module = Unset
    /\ module_prop = Unset /\ provider = Unset /\ changelog = Unset
    /\ kind = Unset /\ issues = Unset /\ donate_urls = Unset
    /\ donate = Unset /\ homepage = Unset
    /\ forge = NoAnswers /\ probed = <<>>

Init ==
    /\ pc = "generate_modules" /\ raised = "none" /\ config = InitialConfig
    /\ output = Unwritten /\ writes = 0 /\ repos = <<>> /\ idx = 0
    /\ modules = <<>> /\ module = Unset
    /\ module_prop = Unset /\ provider = Unset /\ changelog = Unset
    /\ kind = Unset /\ issues = Unset /\ donate_urls = Unset
    /\ donate = Unset /\ homepage = Unset
    /\ forge = NoAnswers /\ probed = <<>>
    /\ PropIdle /\ GqlIdle /\ GitIdle

\* a plausible slip: write_to in a finally clause, run when e propagates
Uncaught_finally(e) ==
    /\ pc' = "raised" /\ raised' = e
    /\ output' = config /\ writes' = writes + 1
    /\ UNCHANGED <<config, repos, idx, modules, module, probed>>

\* an uncaught exception e ends Main.exec
Uncaught(e) ==
    /\ pc' = "raised" /\ raised' = e
    /\ UNCHANGED <<config, output, writes, repos, idx, modules, module, probed>>

\* generate_modules, lines 162-164: modules = [] and the enumeration
GenerateModules ==
    /\ pc = "generate_modules"
    /\ \E n \in 0..MaxRepos : repos' = [i \in 1..n |-> i]
    /\ modules' = <<>>
    /\ pc' = "for"
    /\ UNCHANGED <<raised, config, output, writes, idx, module, locals, forge,
                   probed, propVars, gqlVars, gitVars>>

\* the for statement takes the next repository and calls generate_module
ForNext ==
    /\ pc = "for" /\ idx < Len(repos)
    /\ idx' = idx + 1
    /\ pc' = "get_module_prop"
    /\ UNCHANGED <<raised, config, output, writes, repos, modules, module,
                   locals, forge, probed, propVars, gqlVars, gitVars>>

\* generate_module, lines 112-114
GetModuleProp ==
    /\ pc = "get_module_prop"
    /\ \E contents \in PropAnswers(Few) :
        /\ forge' = [forge EXCEPT !.prop = contents]
        /\ probed' = Append(probed, contents.found)
        /\ module_prop' = get_module_prop(contents)
        /\ IF module_prop' = PyNone
           THEN module' = PyNone /\ pc' = "append"
           ELSE module' = module /\ pc' = "kind"
    /\ UNCHANGED <<raised, config, output, writes, repos, idx, modules,
                   provider, changelog, kind, issues, donate_urls, donate,
                   homepage, propVars, gqlVars, gitVars>>

\* generate_module, lines 116-123
DetermineKind ==
    /\ pc = "kind"
    /\ IF has_update_json(module_prop.d)
       THEN /\ provider' = Str(module_prop.d[UpdateJsonKey])
            /\ changelog' = Str(<<>>)
            /\ kind' = "update-json"
            /\ forge' = forge
       ELSE /\ provider' = Str(ssh_url(repos[idx]))
            /\ \E contents \in ChangelogAnswers(repos[idx]) :
                /\ forge' = [forge EXCEPT !.changelog = contents]
                /\ changelog' = get_changelog(contents)
            /\ kind' = "git"
    /\ pc' = "issues"
    /\ UNCHANGED <<raised, config, output, writes, repos, idx, modules, module,
                   module_prop, issues, donate_urls, donate, homepage, probed,
                   propVars, gqlVars, gitVars>>

\* generate_module, lines 125-128
Issues ==
    /\ pc = "issues"
    /\ \E has_issues \in IssuesFor(Few) :
        /\ forge' = [forge EXCEPT !.has_issues = has_issues]
        /\ issues' = IF has_issues
                     THEN Str(html_url(repos[idx]) \o <<"/issues">>)
                     ELSE Str(<<>>)
    /\ pc' = "donate"
    /\ UNCHANGED <<raised, config, output, writes, repos, idx, modules, module,
                   module_prop, provider, changelog, kind, donate_urls, donate,
                   homepage, probed, propVars, gqlVars, gitVars>>

\* generate_module, lines 130-137
Donate ==
    /\ pc = "donate"
    /\ \E resp \in FundingFor(Few) :
        LET urls == get_sponsor_url(resp)
        IN  /\ forge' = [forge EXCEPT !.funding = resp]
            /\ IF urls.exc # "none"
               THEN /\ Uncaught(urls.exc)
                    /\ UNCHANGED <<donate_urls, donate>>
               ELSE /\ donate_urls' = urls.ret.l
                    /\ donate' = pick_donate(urls.ret.l)
                    /\ pc' = "homepage"
                    /\ UNCHANGED <<raised, config, output, writes, repos, idx,
                                   modules, module, probed>>
    /\ UNCHANGED <<module_prop, provider, changelog, kind, issues, homepage,
                   propVars, gqlVars, gitVars>>

\* generate_module, lines 139-144
Homepage ==
    /\ pc = "homepage"
    /\ \E resp \in HomepageFor(Few) :
        LET url == get_homepage_url(resp)
        IN  /\ forge' = [forge EXCEPT !.homepage = resp]
            /\ IF url.exc # "none"
               THEN /\ Uncaught(url.exc)
                    /\ UNCHANGED homepage
               ELSE /\ homepage' = homepage_or_empty(url.ret)
                    /\ pc' = "assemble"
                    /\ UNCHANGED <<raised, config, output, writes, repos, idx,
                                   modules, module, probed>>
    /\ UNCHANGED <<module_prop, provider, changelog, kind, issues, donate_urls,
                   donate, propVars, gqlVars, gitVars>>

\* generate_module, lines 146-159: module_prop["id"] raises KeyError when the
\* descriptor has no id; the license is looked up while the dict is built
Assemble ==
    /\ pc = "assemble"
    /\ IF IdKey \notin DOMAIN module_prop.d
       THEN /\ Uncaught("KeyError")
            /\ UNCHANGED forge
       ELSE /\ \E lic \in LicenseAnswers(Few) :
                /\ forge' = [forge EXCEPT !.license = lic]
                /\ module' = module_record(module_prop.d, kind, provider, changelog,
                                           get_license(lic), homepage,
                                           Str(clone_url(repos[idx])), donate, issues)
            /\ pc' = "append"
            /\ UNCHANGED <<raised, config, output, writes, repos, idx, modules,
                           probed>>
    /\ UNCHANGED <<locals, propVars, gqlVars, gitVars>>

\* generate_modules, lines 165-167; the frame of generate_module is gone
AppendModule ==
    /\ pc = "append"
    /\ modules' = append_module(modules, module)
    /\ pc' = "for"
    /\ module' = Unset /\ forge' = NoAnswers
    /\ module_prop' = Unset /\ provider' = Unset /\ changelog' = Unset
    /\ kind' = Unset /\ issues' = Unset /\ donate_urls' = Unset
    /\ donate' = Unset /\ homepage' = Unset
    /\ UNCHANGED <<raised, config, output, writes, repos, idx, probed,
                   propVars, gqlVars, gitVars>>

\* generate_modules, line 169, once the loop is over
ForEnd ==
    /\ pc = "for" /\ idx = Len(repos)
    /\ config' = [config EXCEPT !.modules = List(modules)]
    /\ pc' = "write_to"
    /\ UNCHANGED <<raised, output, writes, repos, idx, modules, module, locals,
                   forge, probed, propVars, gqlVars, gitVars>>

\* write_to: json.dump(self._config, f)
WriteTo ==
    /\ pc = "write_to"
    /\ output' = config
    /\ writes' = writes + 1
    /\ pc' = "done"
    /\ UNCHANGED <<raised, config, repos, idx, modules, module, locals, forge,
                   probed, propVars, gqlVars, gitVars>>

Next ==
    \/ GenerateModules
    \/ ForNext
    \/ GetModuleProp
    \/ DetermineKind
    \/ Issues
    \/ Donate
    \/ Homepage
    \/ Assemble
    \/ AppendModule
    \/ ForEnd
    \/ WriteTo

Spec == Init /\ [][Next]_vars

-----------------------------------------------------------------------------
(* SpecProp: get_module_prop applied to every descriptor text of at most   *)
(* MaxLen characters over PropChars, and to a repository without the file. *)

PropChars == {"a", EQ, LF, CR}


InitProp ==
    /\ prop \in {NotFound} \cup {File(s) : s \in SeqsUpTo(PropChars, MaxLen)}
    /\ parsed = Pending
    /\ GqlIdle /\ BuildIdle /\ GitIdle

CallGetModuleProp ==
    /\ parsed = Pending
    /\ parsed' = Return(get_module_prop(prop))
    /\ UNCHANGED <<prop, gqlVars, buildVars, gitVars>>

NextProp == CallGetModuleProp

SpecProp == InitProp /\ [][NextProp]_vars

-----------------------------------------------------------------------------
(* SpecGraphQL: each getter of GitHubGraphQL applied to every answer.      *)

InitGraphQL ==
    /\ call \in Getters
    /\ response \in AnswersTo(call)
    /\ outcome = Pending
    /\ PropIdle /\ BuildIdle /\ GitIdle

CallGetSponsorUrl ==
    /\ call = "get_sponsor_url" /\ outcome = Pending
    /\ outcome' = get_sponsor_url(response)
    /\ UNCHANGED <<call, response, propVars, buildVars, gitVars>>

CallGetHomepageUrl ==
    /\ call = "get_homepage_url" /\ outcome = Pending
    /\ outcome' = get_homepage_url(response)
    /\ UNCHANGED <<call, response, propVars, buildVars, gitVars>>

CallGetPushedAt ==
    /\ call = "get_pushed_at" /\ outcome = Pending
    /\ outcome' = get_pushed_at(response)
    /\ UNCHANGED <<call, response, propVars, buildVars, gitVars>>

NextGraphQL == CallGetSponsorUrl \/ CallGetHomepageUrl \/ CallGetPushedAt

SpecGraphQL == InitGraphQL /\ [][NextGraphQL]_vars

-----------------------------------------------------------------------------
(* git-commit.py                                                           *)

GITHUB_MAX_SIZE == 50 * 1024 * 1024

\* skip_it(module_dir): some *.zip of the directory is at or above the limit
skip_it(dir) == \E size \in dir.zips : size >= GITHUB_MAX_SIZE

\* the glob "[!.]*/" of Git.remove: a name that does not start with "."
globbed(dir) == ~dir.hidden

\* a plausible slip: check=False, the exit status is ignored
run_unchecked(exit_ok) == "ok"

\* subprocess.run(..., check=True): CalledProcessError on a non-zero exit
run_checked(exit_ok) == IF exit_ok THEN "ok" ELSE "CalledProcessError"

\* what open + json.load + modules["timestamp"] / 1000 make of the manifest
read_timestamp(m) ==
    IF m.state = "missing" THEN Raise("FileNotFoundError")
    ELSE IF m.state = "unparseable" THEN Raise("JSONDecodeError")
    ELSE IF "timestamp" \notin DOMAIN m.json THEN Raise("KeyError")
    ELSE Return([seconds |-> m.json["timestamp"] \div 1000,
                 millis |-> m.json["timestamp"] % 1000])

\* the sizes of the archives explored, around the limit
ZipSizes == {GITHUB_MAX_SIZE - 1, GITHUB_MAX_SIZE, GITHUB_MAX_SIZE + 1}

DirEntries == [hidden : BOOLEAN, zips : SUBSET ZipSizes, present : {TRUE}]

Manifests ==
    { [state |-> "missing"], [state |-> "unparseable"],
      [state |-> "json", json |-> [other |-> 0]],
      [state |-> "json", json |-> [timestamp |-> 0]],
      [state |-> "json", json |-> [timestamp |-> 86400123]] }

\* the steps of Main.exec, in the order of its statements
Workflow == <<"remove", "upgrade", "add", "commit.read", "commit.run">>

-----------------------------------------------------------------------------
(* SpecGit: Main.exec of git-commit.py, from Git(working_dir).             *)

InitGit ==
    /\ step = "remove"
    /\ modules_dir \in SeqsUpTo(DirEntries, MaxDirs)
    /\ cursor = 0 /\ ran = <<>> /\ manifest = Unasked /\ msg = Unset
    /\ PropIdle /\ GqlIdle /\ BuildIdle

\* git.remove() is entered
RemoveBegin ==
    /\ step = "remove" /\ cursor = 0 /\ ran = <<>>
    /\ ran' = <<[step |-> "remove", end |-> "running"]>>
    /\ cursor' = 1
    /\ UNCHANGED <<step, modules_dir, manifest, msg, propVars, gqlVars, buildVars>>

\* one iteration of the loop of Git.remove; rmtree(ignore_errors=True) may
\* leave the directory in place
RemoveNext ==
    /\ step = "remove" /\ cursor >= 1 /\ cursor <= Len(modules_dir)
    /\ IF globbed(modules_dir[cursor]) /\ skip_it(modules_dir[cursor])
       THEN \E gone \in BOOLEAN :
                modules_dir' = [modules_dir EXCEPT ![cursor].present = ~gone]
       ELSE modules_dir' = modules_dir
    /\ cursor' = cursor + 1
    /\ UNCHANGED <<step, ran, manifest, msg, propVars, gqlVars, buildVars>>

\* git.remove() returns
RemoveEnd ==
    /\ step = "remove" /\ cursor = Len(modules_dir) + 1
    /\ ran' = [ran EXCEPT ![Len(ran)].end = "ok"]
    /\ step' = "upgrade"
    /\ UNCHANGED <<modules_dir, cursor, manifest, msg, propVars, gqlVars, buildVars>>

\* a step that runs one subprocess: it ends the run when the subprocess fails
RunStep(name, next) ==
    /\ step = name
    /\ \E exit_ok \in BOOLEAN :
        /\ ran' = Append(ran, [step |-> name, end |-> IF exit_ok THEN "ok" ELSE "failed"])
        /\ step' = IF run_checked(exit_ok) = "ok" THEN next ELSE "raised"
    /\ UNCHANGED <<modules_dir, cursor, manifest, msg, propVars, gqlVars, buildVars>>

\* git.upgrade(): mrepo upgrade --pretty
Upgrade == RunStep("upgrade", "add")

\* git.add(): git add --all
Add == RunStep("add", "commit.read")

\* git.commit(), lines 45-50: the manifest is read and the message built
CommitRead ==
    /\ step = "commit.read"
    /\ \E m \in Manifests :
        LET time == read_timestamp(m)
        IN  /\ manifest' = m
            /\ IF time.exc # "none"
               THEN /\ ran' = Append(ran, [step |-> "commit.read", end |-> "failed"])
                    /\ step' = "raised"
                    /\ msg' = msg
               ELSE /\ ran' = Append(ran, [step |-> "commit.read", end |-> "ok"])
                    /\ step' = "commit.run"
                    /\ msg' = [text |-> "Update by CLI", time |-> time.ret]
    /\ UNCHANGED <<modules_dir, cursor, propVars, gqlVars, buildVars>>

\* git.commit(), lines 52-56: git commit -m msg
CommitRun == RunStep("commit.run", "done")

NextGit ==
    \/ RemoveBegin
    \/ RemoveNext
    \/ RemoveEnd
    \/ Upgrade
    \/ Add
    \/ CommitRead
    \/ CommitRun

SpecGit == InitGit /\ [][NextGit]_vars

-----------------------------------------------------------------------------
(* C9                                                                      *)

\* the names of the steps started so far, in order
Started == [i \in 1..Len(ran) |-> ran[i].step]

\* C9: the workflow's steps run in the fixed order prune, upgrade, add,
\* commit, each at most once, and a step starts only if every earlier one
\* ended without error: a failing upgrade prevents add and commit, a failing
\* add prevents commit, and git commit is run only after the manifest was
\* parsed and its timestamp read; a missing timestamp or an unparseable
\* manifest ends the workflow with no commit issued.
C9_WorkflowOrder ==
    /\ Len(ran) <= Len(Workflow)
    /\ Started = SubSeq(Workflow, 1, Len(ran))
    /\ \A i \in 1..(Len(ran) - 1) : ran[i].end = "ok"
    /\ (\E i \in 1..Len(ran) : ran[i].step = "commit.run") =>
          /\ manifest # Unasked /\ manifest.state = "json"
          /\ "timestamp" \in DOMAIN manifest.json
          /\ msg # Unset
          /\ msg.time.seconds * 1000 + msg.time.millis = manifest.json["timestamp"]
    /\ (manifest # Unasked /\ read_timestamp(manifest).exc # "none") =>
          /\ step = "raised"
          /\ \A i \in 1..Len(ran) : ran[i].step # "commit.run"

\* the whole workflow ran, the commit included, after an oversized directory
\* was pruned
C9_Witness ==
    /\ step = "done"
    /\ Started = Workflow
    /\ \E i \in 1..Len(modules_dir) : ~modules_dir[i].present
    /\ manifest.json["timestamp"] = 86400123

-----------------------------------------------------------------------------
(* C4                                                                      *)

\* C4: the query-language client never raises to its caller: whatever the
\* request's outcome, get_sponsor_url returns a list, and get_homepage_url
\* and get_pushed_at return a value or None.
C4_ClientNeverRaises ==
    outcome # Pending =>
        /\ outcome.exc = "none"
        /\ call = "get_sponsor_url" => outcome.ret.t = "list"

-----------------------------------------------------------------------------
(* C7                                                                      *)

\* the lines of s by position: <<i, j>> is a maximal run s[i..j] free of line
\* boundaries (j = i - 1 for an empty line)
LinesOf(s) ==
    {l \in (1..(Len(s) + 1)) \X (0..Len(s)) :
        /\ l[2] >= l[1] - 1
        /\ \A p \in l[1]..l[2] : s[p] \notin LineBreaks
        /\ l[1] = 1 \/ s[l[1] - 1] \in LineBreaks
        /\ l[2] = Len(s) \/ s[l[2] + 1] \in LineBreaks}

\* the lines of s that contain "="
KVLinesOf(s) == {l \in LinesOf(s) : \E p \in l[1]..l[2] : s[p] = EQ}

\* the position of the first "=" of line l of s
FirstEqOf(s, l) ==
    CHOOSE p \in l[1]..l[2] : s[p] = EQ /\ \A q \in l[1]..(p - 1) : s[q] # EQ

KeyOf(s, l) == SubSeq(s, l[1], FirstEqOf(s, l) - 1)
ValueOf(s, l) == SubSeq(s, FirstEqOf(s, l) + 1, l[2])

\* the last line of s with "=" whose key is k
LastLineWithKey(s, k) ==
    CHOOSE l \in KVLinesOf(s) :
        /\ KeyOf(s, l) = k
        /\ \A l2 \in KVLinesOf(s) : KeyOf(s, l2) = k => l2[1] <= l[1]

\* C7: get_module_prop returns None exactly when the file does not exist;
\* otherwise it returns the mapping whose keys are the prefixes before the
\* first "=" of the lines containing "=", each mapped to the remainder after
\* that first "=" of the LAST such line with that key; lines without "="
\* contribute nothing, nothing is trimmed (key + "=" + value is the line), and
\* values keep any further "=".
C7_DescriptorParsing ==
    parsed # Pending =>
        /\ parsed.exc = "none"
        /\ (parsed.ret = PyNone) <=> ~prop.found
        /\ prop.found =>
            LET s == prop.text
                m == parsed.ret.d
            IN  /\ parsed.ret.t = "dict"
                /\ DOMAIN m = {KeyOf(s, l) : l \in KVLinesOf(s)}
                /\ \A k \in DOMAIN m :
                    LET l == LastLineWithKey(s, k)
                    IN  /\ m[k] = ValueOf(s, l)
                        /\ k \o <<EQ>> \o m[k] = SubSeq(s, l[1], l[2])

\* a text with a line lacking "=", a duplicated key whose later line wins and
\* a value holding a further "=" has been parsed
C7_Witness ==
    /\ parsed # Pending
    /\ prop.found
    /\ prop.text = <<"a", EQ, LF, "a", EQ, EQ>>
    /\ parsed.ret.d[<<"a">>] = <<EQ>>

-----------------------------------------------------------------------------
(* Claims about Main.exec of build.py, checked under Spec.                 *)

\* generate_modules has completed
Completed == pc \in {"write_to", "done"}

\* generate_module has just returned a record for repos[idx]
Returned == pc = "append" /\ module # PyNone

\* the enumerated repositories that had a descriptor, in enumeration order
WithDescriptor == SelectSeq(repos, LAMBDA r : probed[r])

\* C1: after generate_modules completes, the catalog's modules are exactly
\* the enumeration-order subsequence of the repositories that have a
\* module.prop, one record each: none for a repository without a descriptor,
\* count = repositories minus those without a descriptor, order kept, and
\* records with the same id both kept.
C1_ModulesAreDescriptorSubsequence ==
    Completed =>
        /\ Len(probed) = Len(repos)
        /\ config.modules.t = "list"
        /\ Len(config.modules.l) =
               Len(repos) - Cardinality({i \in 1..Len(repos) : ~probed[i]})
        /\ Len(config.modules.l) = Len(WithDescriptor)
        /\ \A i \in 1..Len(WithDescriptor) :
               config.modules.l[i].metadata.source = Str(clone_url(WithDescriptor[i]))

\* three repositories, the middle one without a descriptor, the other two
\* with the same id: both are listed, in enumeration order
C1_Witness ==
    /\ Completed
    /\ probed = <<TRUE, FALSE, TRUE>>
    /\ Len(config.modules.l) = 2
    /\ config.modules.l[1].id = config.modules.l[2].id
    /\ config.modules.l[1].metadata.source = Str(clone_url(repos[1]))
    /\ config.modules.l[2].metadata.source = Str(clone_url(repos[3]))

\* the descriptor text s has an updateJson key whose value is not empty
HasUpdateJson(s) ==
    /\ \E l \in KVLinesOf(s) : KeyOf(s, l) = UpdateJsonKey
    /\ ValueOf(s, LastLineWithKey(s, UpdateJsonKey)) # <<>>

\* C2: a returned record has kind update-json exactly when the descriptor has
\* an updateJson key with a non-empty value, and kind git otherwise; for
\* update-json the provider is that value and the changelog is ""; for git
\* the provider is the SSH clone URL and the changelog is the download URL of
\* changelog.md if the file exists, else "".  So the changelog is non-empty
\* only for kind git with a changelog file.
C2_KindProviderChangelog ==
    Returned =>
        LET s == forge.prop.text
            r == repos[idx]
        IN  /\ module.kind \in {"update-json", "git"}
            /\ (module.kind = "update-json") <=> HasUpdateJson(s)
            /\ module.kind = "update-json" =>
                /\ module.provider = Str(ValueOf(s, LastLineWithKey(s, UpdateJsonKey)))
                /\ module.changelog = Str(<<>>)
            /\ module.kind = "git" =>
                /\ module.provider = Str(ssh_url(r))
                /\ module.changelog =
                       IF forge.changelog.found THEN Str(download_url(r)) ELSE Str(<<>>)
            /\ module.changelog # Str(<<>>) =>
                   module.kind = "git" /\ forge.changelog.found

\* a descriptor whose updateJson value is empty, in a repository that has a
\* changelog.md: kind git with the changelog's download URL
C2_Witness ==
    /\ Returned
    /\ forge.prop.text = Line(IdKey, <<"a">>) \o <<LF>> \o Line(UpdateJsonKey, <<>>)
    /\ module.kind = "git"
    /\ module.changelog = Str(download_url(repos[idx]))

\* the funding entries the forge returned, none when the answer carries no
\* repository
EntriesOf(resp) ==
    IF resp \in NoRepository THEN <<>>
    ELSE resp.json.d["data"].d["repository"].d["fundingLinks"].l

\* seg is what follows the last "/" of url (all of url when it has no "/")
IsLastSegment(url, seg) ==
    \E k \in 0..Len(url) :
        /\ seg = SubSeq(url, k + 1, Len(url))
        /\ \A p \in (k + 1)..Len(url) : url[p] # SLASH
        /\ k = 0 \/ url[k] = SLASH

\* link is what funding entry e resolves to
IsResolved(e, link) ==
    IF e.platform = "GITHUB"
    THEN \E seg \in {SubSeq(e.url, k, Len(e.url)) : k \in 1..(Len(e.url) + 1)} :
            IsLastSegment(e.url, seg) /\ link = SponsorsPrefix \o seg
    ELSE link = e.url

\* C5: the list returned by get_sponsor_url has the length and order of the
\* funding entries, each GITHUB entry rewritten to the sponsors URL of its
\* last path segment and every other entry's url unchanged; donate is "" when
\* there is no entry (or no repository was returned) and otherwise the first
\* entry's link, and that is the record's metadata.donate.
C5_DonateIsFirstFundingLink ==
    donate # Unset =>
        LET entries == EntriesOf(forge.funding)
        IN  /\ Len(donate_urls) = Len(entries)
            /\ \A i \in 1..Len(entries) : IsResolved(entries[i], donate_urls[i])
            /\ donate.t = "str"
            /\ IF Len(entries) = 0 THEN donate = Str(<<>>)
               ELSE IsResolved(entries[1], donate.s)
            /\ Returned => module.metadata.donate = donate

\* two entries, the first on the sponsorship platform: the first wins and is
\* rewritten
C5_Witness ==
    /\ Returned
    /\ EntriesOf(forge.funding) =
           <<[platform |-> "GITHUB", url |-> <<"h", SLASH, "o">>],
             [platform |-> "OTHER", url |-> <<"x">>]>>
    /\ module.metadata.donate = Str(SponsorsPrefix \o <<"o">>)

\* the five metadata fields of record m are strings
MetadataAreStrings(m) ==
    /\ DOMAIN m.metadata = {"license", "homepage", "source", "donate", "support"}
    /\ \A f \in DOMAIN m.metadata : m.metadata[f].t = "str"
    /\ m.metadata.license # Str(<<"NOASSERTION">>)

\* every record built so far
Records ==
    {modules[i] : i \in 1..Len(modules)}
    \cup (IF Returned THEN {module} ELSE {})
    \cup (IF config.modules.t = "list"
          THEN {config.modules.l[i] : i \in 1..Len(config.modules.l)} ELSE {})
    \cup (IF output # Unwritten
          THEN {output.modules.l[i] : i \in 1..Len(output.modules.l)} ELSE {})

\* the homepageUrl the forge returned is empty, null, or there is none
NoHomepage(resp) ==
    \/ resp \in NoRepository
    \/ resp.json.d["data"].d["repository"].d["homepageUrl"] \in {PyNone, Str(<<>>)}

\* C6: in every record, metadata.license, homepage, source, donate and
\* support are present and are strings, never null; a homepage the forge
\* reports empty or null is "", support is "" when the issue tracker is
\* disabled, and license is "" (never NOASSERTION) when the licence is the
\* sentinel or is not found.
C6_MetadataAreStrings ==
    /\ \A m \in Records : MetadataAreStrings(m)
    /\ Returned =>
        /\ NoHomepage(forge.homepage) => module.metadata.homepage = Str(<<>>)
        /\ ~forge.has_issues => module.metadata.support = Str(<<>>)
        /\ (~forge.license.found \/ forge.license.spdx_id = <<"NOASSERTION">>)
               => module.metadata.license = Str(<<>>)

\* a null homepageUrl, a disabled issue tracker and the sentinel licence
C6_Witness ==
    /\ Returned
    /\ forge.homepage = WithRepository(Dict([homepageUrl |-> PyNone]))
    /\ ~forge.has_issues
    /\ forge.license.found /\ forge.license.spdx_id = <<"NOASSERTION">>
    /\ module.metadata.homepage = Str(<<>>)

\* C10: the output file is written at most once, only after generate_modules
\* handled every enumerated repository; the catalog's modules are assigned
\* only at the end of the loop; when resolving a repository raises, nothing
\* is written; a written manifest has empty log and repository objects and
\* the complete list of modules.
C10_ManifestAllOrNothing ==
    /\ writes <= 1
    /\ config.modules.t = "list" => Completed /\ idx = Len(repos)
    /\ pc = "raised" => output = Unwritten /\ writes = 0
    /\ output # Unwritten =>
        /\ pc = "done" /\ writes = 1
        /\ idx = Len(repos) /\ Len(probed) = Len(repos)
        /\ output.log = EmptyDict /\ output.repository = EmptyDict
        /\ output.modules = List(modules)
        /\ Len(modules) = Cardinality({i \in 1..Len(repos) : probed[i]})

\* a manifest with two modules has been written
C10_Witness ==
    /\ pc = "done"
    /\ output # Unwritten
    /\ Len(output.modules.l) = 2
    /\ Len(repos) = 2

\* C3: the run never aborts because of a repository's metadata gaps: unless
\* the transport fails or the forge's answer is malformed, every repository
\* is handled and the run goes on to the manifest write.
C3_NoAbortOnMetadataGaps ==
    pc = "raised" => (forge.funding \in Faulty \/ forge.homepage \in Faulty)

\* C8: for a descriptor that exists but has no id key, the record is still
\* built and returned to generate_modules.
C8_RecordBuiltWithoutId ==
    [][(pc = "assemble" /\ IdKey \notin DOMAIN module_prop.d)
          => (pc' = "append" /\ module' # PyNone)]_vars

=============================================================================
